---- MODULE Spec2Model ----
(***************************************************************************)
(* Model of the UniProtKB preprocessing scripts:                           *)
(*   data/scripts/process.py   field extraction, citation stripping,       *)
(*                             sequence segmentation, corpus writing       *)
(*   data/scripts/download.py  the per-split download loop                 *)
(* Strings are sequences of one-character strings; amino-acid sequences    *)
(* are sequences of residue codes (integers).                              *)
(***************************************************************************)
EXTENDS Integers, Sequences, FiniteSets, TLC

VARIABLES
    \* segment_with_overlapping(sequence, max_len, overlap_len) and its outcome
    sequence, max_len, overlap_len, segments,
    \* _remove_pubmed_annotation(text) and its result
    text, stripped,
    \* get_features(data) and its outcome
    data, gathered_dict,
    \* the Extractor's main loop (process.py lines 222-265)
    listing,              \* os.listdir(read_json_dir) of each split
    epc,                  \* "open", "files", "done" or "crashed"
    esplit,               \* index of the current split in SPLITS
    efile,                \* files of the current split already visited
    save_files,           \* the {split}.jsonl files
    processed_data,       \* local of the loop body (line 239)
    segmented_sequences,  \* local of the loop body (line 241)
    \* the Fetcher's main loop (download.py lines 18-41)
    txt,                  \* the lines of each split's accession list
    fpc,                  \* "begin", "fetch" or "done"
    fsplit,               \* index of the current split in SPLITS
    facc,                 \* accessions of the current split already visited
    accessions,           \* local: the list read at line 26
    dirs,                 \* the splits whose download directory exists
    store,                \* the downloaded files, by path
    requests,             \* the GET requests issued so far, in order
    response              \* local: the last response (line 30)

segVars == <<sequence, max_len, overlap_len, segments>>
stripVars == <<text, stripped>>
featVars == <<data, gathered_dict>>
extVars == <<listing, epc, esplit, efile, save_files, processed_data,
             segmented_sequences>>
fetVars == <<txt, fpc, fsplit, facc, accessions, dirs, store, requests, response>>
vars == <<segVars, stripVars, featVars, extVars, fetVars>>

----------------------------------------------------------------------------
(* Bounds of the model *)

MaxSeqLen == 10      \* longest sequence of the small segmenter inputs
MaxMaxLen == 4       \* largest max_len of the small segmenter inputs
MaxStrides == 2      \* corpus-configuration inputs reach this many strides
MaxChunks == 5       \* pieces an input text of the citation stripper is built from
MaxComments == 2     \* comments of a record given to get_features
MaxLines == 2        \* lines of the accession lists of a Fetcher run, all splits together
MaxFiles == 2        \* input files of an Extractor run, all splits together

(* Program constants *)

CORPUS_MAX_LEN == 1022      \* process.py:242  max_len=1022
CORPUS_OVERLAP_LEN == 256   \* process.py:242  overlap_len=256

----------------------------------------------------------------------------
(* Python built-ins used by the scripts *)

Min(a, b) == IF a <= b THEN a ELSE b
Max(a, b) == IF a >= b THEN a ELSE b

\* s[a:b] for a, b >= 0: both ends are clipped to len(s)
PySlice(s, a, b) ==
    LET lo == Min(a, Len(s))
        hi == Min(b, Len(s))
    IN  IF hi <= lo THEN <<>> ELSE SubSeq(s, lo + 1, hi)

\* s[a:] where a may be negative (counted from the end) ; s[-0:] is s[0:]
PySliceFrom(s, a) ==
    LET lo == IF a < 0 THEN Max(Len(s) + a, 0) ELSE Min(a, Len(s))
    IN  IF lo >= Len(s) THEN <<>> ELSE SubSeq(s, lo + 1, Len(s))

\* the outcome of a call: a returned value or a raised exception
Returned(v) == [state |-> "returned", value |-> v]
Raised(e)   == [state |-> "raised", value |-> e]
NotCalled   == [state |-> "pending", value |-> <<>>]

\* range(start, stop, step): ValueError for step 0, empty when step points
\* away from stop
RECURSIVE RangeFrom(_, _, _)
RangeFrom(cur, stop, step) ==
    IF (step > 0 /\ cur < stop) \/ (step < 0 /\ cur > stop)
    THEN <<cur>> \o RangeFrom(cur + step, stop, step)
    ELSE <<>>

\* the concatenation of a list of lists
RECURSIVE Concat(_)
Concat(ss) == IF ss = <<>> THEN <<>> ELSE Head(ss) \o Concat(Tail(ss))

PyRange(start, stop, step) ==
    IF step = 0 THEN Raised("ValueError") ELSE Returned(RangeFrom(start, stop, step))

----------------------------------------------------------------------------
(* process.py: segment_with_overlapping *)

\* the loop body of lines 214-216 with the length test dropped
RECURSIVE StrideWalkKeepShort(_, _, _)
StrideWalkKeepShort(s, maxlen, starts) ==
    IF starts = <<>> THEN <<>>
    ELSE <<PySlice(s, Head(starts), Head(starts) + maxlen)>>
         \o StrideWalkKeepShort(s, maxlen, Tail(starts))

\* lines 213-216: one window per start position, kept only when it is full
RECURSIVE StrideWalk(_, _, _)
StrideWalk(s, maxlen, starts) ==
    IF starts = <<>> THEN <<>>
    ELSE LET segment == PySlice(s, Head(starts), Head(starts) + maxlen)
             rest == StrideWalk(s, maxlen, Tail(starts))
         IN  IF Len(segment) = maxlen THEN <<segment>> \o rest ELSE rest

\* lines 217-218 changed to skip the tail window when the walk already ended on it
AppendTailDedup(walk, s, maxlen) ==
    IF Len(s) > maxlen /\ (walk = <<>> \/ walk[Len(walk)] # PySliceFrom(s, -maxlen))
    THEN Append(walk, PySliceFrom(s, -maxlen))
    ELSE walk

\* lines 217-218 dropped: no tail window
AppendTailNever(walk, s, maxlen) == walk

\* lines 217-218: the final max_len characters, appended unconditionally
AppendTail(walk, s, maxlen) ==
    IF Len(s) > maxlen THEN Append(walk, PySliceFrom(s, -maxlen)) ELSE walk

segment_with_overlapping(s, maxlen, overlaplen) ==
    IF Len(s) <= maxlen
    THEN Returned(<<s>>)
    ELSE LET starts == PyRange(0, Len(s), maxlen - overlaplen)
         IN  IF starts.state = "raised"
             THEN starts
             ELSE Returned(AppendTail(StrideWalk(s, maxlen, starts.value), s, maxlen))

----------------------------------------------------------------------------
(* process.py: _remove_pubmed_annotation *)

PUBMED == <<"P","u","b","M","e","d">>
Parens == {"(", ")"}

\* whether s holds the word w somewhere in positions lo..hi
Holds(s, lo, hi, w) ==
    \E k \in lo..(hi - Len(w) + 1) : SubSeq(s, k, k + Len(w) - 1) = w

\* the marker test made case-insensitive (re.IGNORECASE)
HasMarkerAnyCase(s, lo, hi) ==
    Holds(s, lo, hi, PUBMED) \/ Holds(s, lo, hi, <<"p","u","b","m","e","d">>)

\* line 200: the literal PubMed between the two [^()]* runs
HasMarker(s, lo, hi) == Holds(s, lo, hi, PUBMED)

\* index of the first parenthesis at or after i, 0 when there is none
FirstParenFrom(s, i) ==
    LET P == {j \in i..Len(s) : s[j] \in Parens}
    IN  IF P = {} THEN 0 ELSE CHOOSE j \in P : \A k \in P : j <= k

\* line 200: \([^()]*PubMed[^()]*\) tried at index i; the index of the
\* closing parenthesis of the match, 0 when the pattern does not match there.
\* [^()]* cannot cross a parenthesis, so the \) is the first one after i.
MatchEnd(s, i) ==
    IF s[i] # "(" THEN 0
    ELSE LET j == FirstParenFrom(s, i + 1)
         IN  IF j # 0 /\ s[j] = ")" /\ HasMarker(s, i + 1, j - 1) THEN j ELSE 0

\* line 201: re.sub(pattern, '', text) from position pos on: the leftmost
\* match is dropped, the text before it kept, the scan resumes after it
RECURSIVE ReSub(_, _)
ReSub(s, pos) ==
    LET M == {i \in pos..Len(s) : MatchEnd(s, i) # 0}
    IN  IF M = {}
        THEN SubSeq(s, pos, Len(s))
        ELSE LET i == CHOOSE m \in M : \A k \in M : m <= k
             IN  SubSeq(s, pos, i - 1) \o ReSub(s, MatchEnd(s, i) + 1)

_remove_pubmed_annotation(s) == ReSub(s, 1)

----------------------------------------------------------------------------
(* process.py: the field accessors and get_features *)

KeyError == Raised("KeyError")
Has(d, k) == k \in DOMAIN d

SEP == <<" ","|"," ">>

\* " | ".join(parts)
RECURSIVE Join(_)
Join(parts) ==
    IF parts = <<>> THEN <<>>
    ELSE IF Len(parts) = 1 THEN parts[1]
    ELSE parts[1] \o SEP \o Join(Tail(parts))

\* lines 43-44
_get_accession(d) ==
    IF Has(d, "primaryAccession") THEN Returned(d["primaryAccession"]) ELSE KeyError

\* lines 47-48
_get_sequence(d) ==
    IF Has(d, "sequence") /\ Has(d["sequence"], "value")
    THEN Returned(d["sequence"]["value"])
    ELSE KeyError

\* lines 65-66
_get_organism(d) ==
    IF /\ Has(d, "organism")
       /\ Has(d["organism"], "lineage")
       /\ Has(d["organism"], "scientificName")
    THEN LET lineage == d["organism"]["lineage"]
         IN  Returned(<<"l","i","n","e","a","g","e",":"," ">> \o lineage[Len(lineage)]
                      \o <<","," ","o","r","g","a","n","i","s","m",":"," ">> \o d["organism"]["scientificName"])
    ELSE KeyError

\* the comments of the list whose commentType is tag, in list order
OfType(comments, tag) == SelectSeq(comments, LAMBDA c : c["commentType"] = tag)

\* [text["value"] for text in texts]
Values(texts) == [i \in 1..Len(texts) |-> texts[i]["value"]]

\* the comprehension shared by _get_description, _get_family, _get_domain,
\* _get_subunit, _get_ptm, _get_pathway, _get_tissue and _get_induction:
\*   [text["value"] for comment in comments if comment["commentType"] == tag
\*                  for text in comment["texts"]]
\* Every lookup that can fail raises KeyError, so the call raises exactly when
\* one of the lookups it reaches has no key.
CommentTexts(d, tag) ==
    IF ~Has(d, "comments") THEN KeyError
    ELSE LET comments == d["comments"] IN
         IF \E i \in 1..Len(comments) : ~Has(comments[i], "commentType") THEN KeyError
         ELSE LET sel == OfType(comments, tag) IN
              IF \E i \in 1..Len(sel) :
                     \/ ~Has(sel[i], "texts")
                     \/ \E j \in 1..Len(sel[i]["texts"]) : ~Has(sel[i]["texts"][j], "value")
              THEN KeyError
              ELSE Returned(Join(Concat([i \in 1..Len(sel) |-> Values(sel[i]["texts"])])))

_get_description(d) == CommentTexts(d, "FUNCTION")            \* lines 55-62
_get_family(d)      == CommentTexts(d, "SIMILARITY")          \* lines 69-76
_get_domain(d)      == CommentTexts(d, "DOMAIN")              \* lines 79-86
_get_subunit(d)     == CommentTexts(d, "SUBUNIT")             \* lines 124-131
_get_ptm(d)         == CommentTexts(d, "PTM")                 \* lines 158-165
_get_pathway(d)     == CommentTexts(d, "PATHWAY")             \* lines 168-175
_get_tissue(d)      == CommentTexts(d, "TISSUE SPECIFICITY")  \* lines 178-185
_get_induction(d)   == CommentTexts(d, "INDUCTION")           \* lines 188-195

\* lines 116-120 and 150-154: the free-text notes of the comments that have one
NoteFails(sel) ==
    \E i \in 1..Len(sel) :
        /\ Has(sel[i], "note")
        /\ \/ ~Has(sel[i]["note"], "texts")
           \/ \E j \in 1..Len(sel[i]["note"]["texts"]) :
                  ~Has(sel[i]["note"]["texts"][j], "value")

Notes(sel) ==
    LET noted == SelectSeq(sel, LAMBDA c : Has(c, "note"))
    IN  Concat([i \in 1..Len(noted) |-> Values(noted[i]["note"]["texts"])])

\* lines 90-106
UNKNOWN == <<"u","n","k","n","o","w","n">>
PartFails(sl, part) == Has(sl, part) /\ ~Has(sl[part], "value")
PartOf(sl, part) == IF Has(sl, part) THEN sl[part]["value"] ELSE UNKNOWN

_format_subcellular_location(sl) ==
    <<"l","o","c","a","t","i","o","n",":"," ">> \o PartOf(sl, "location")
    \o <<";"," ","t","o","p","o","l","o","g","y",":"," ">> \o PartOf(sl, "topology")
    \o <<";"," ","o","r","i","e","n","t","a","t","i","o","n",":"," ">> \o PartOf(sl, "orientation")

\* lines 89-121
_get_location(d) ==
    IF ~Has(d, "comments") THEN KeyError
    ELSE LET comments == d["comments"] IN
         IF \E i \in 1..Len(comments) : ~Has(comments[i], "commentType") THEN KeyError
         ELSE LET sel == OfType(comments, "SUBCELLULAR LOCATION")
                  structured == SelectSeq(sel, LAMBDA c : Has(c, "subcellularLocations"))
              IN
              IF \/ \E i \in 1..Len(structured) :
                        \E j \in 1..Len(structured[i]["subcellularLocations"]) :
                            \E part \in {"location", "topology", "orientation"} :
                                PartFails(structured[i]["subcellularLocations"][j], part)
                 \/ NoteFails(sel)
              THEN KeyError
              ELSE LET locations ==
                           Concat([i \in 1..Len(structured) |->
                               [j \in 1..Len(structured[i]["subcellularLocations"]) |->
                                   _format_subcellular_location(
                                       structured[i]["subcellularLocations"][j])]])
                   IN  Returned(Join(locations \o Notes(sel)))

\* lines 134-140
_get_activity(d) ==
    IF ~Has(d, "comments") THEN KeyError
    ELSE LET comments == d["comments"] IN
         IF \E i \in 1..Len(comments) : ~Has(comments[i], "commentType") THEN KeyError
         ELSE LET sel == OfType(comments, "CATALYTIC ACTIVITY") IN
              IF \E i \in 1..Len(sel) :
                     ~Has(sel[i], "reaction") \/ ~Has(sel[i]["reaction"], "name")
              THEN KeyError
              ELSE Returned(Join([i \in 1..Len(sel) |-> sel[i]["reaction"]["name"]]))

\* lines 143-155
_get_cofactor(d) ==
    IF ~Has(d, "comments") THEN KeyError
    ELSE LET comments == d["comments"] IN
         IF \E i \in 1..Len(comments) : ~Has(comments[i], "commentType") THEN KeyError
         ELSE LET sel == OfType(comments, "COFACTOR")
                  named == SelectSeq(sel, LAMBDA c : Has(c, "cofactors"))
              IN
              IF \/ \E i \in 1..Len(named) :
                        \E j \in 1..Len(named[i]["cofactors"]) :
                            ~Has(named[i]["cofactors"][j], "name")
                 \/ NoteFails(sel)
              THEN KeyError
              ELSE LET cofactors ==
                           Concat([i \in 1..Len(named) |->
                               [j \in 1..Len(named[i]["cofactors"]) |->
                                   named[i]["cofactors"][j]["name"]]])
                   IN  Returned(Join(cofactors \o Notes(sel)))

\* lines 25-31: the keys, in the order the loop visits them
FEATURE_KEYS ==
    << "accession", "sequence",
       "organism", "family", "domain",
       "location", "subunit", "activity", "cofactor", "ptm",
       "pathway", "tissue", "induction",
       "description" >>

\* lines 33-34: globals()[f"_get_{key}"](data)
Extract(key, d) ==
    CASE key = "accession"   -> _get_accession(d)
      [] key = "sequence"    -> _get_sequence(d)
      [] key = "organism"    -> _get_organism(d)
      [] key = "family"      -> _get_family(d)
      [] key = "domain"      -> _get_domain(d)
      [] key = "location"    -> _get_location(d)
      [] key = "subunit"     -> _get_subunit(d)
      [] key = "activity"    -> _get_activity(d)
      [] key = "cofactor"    -> _get_cofactor(d)
      [] key = "ptm"         -> _get_ptm(d)
      [] key = "pathway"     -> _get_pathway(d)
      [] key = "tissue"      -> _get_tissue(d)
      [] key = "induction"   -> _get_induction(d)
      [] key = "description" -> _get_description(d)

\* gathered_dict[key] = value
SetItem(gathered, key, value) == (key :> value) @@ gathered

\* the handler with line 37 left out: the failed key is not stored
OnKeyErrorOmit(gathered, key) == gathered

\* line 37: gathered_dict[key] = ""
OnKeyError(gathered, key) == SetItem(gathered, key, <<>>)

\* lines 25-40. The handler's print (line 38) calls _get_accession(data) again,
\* outside any try: without primaryAccession that KeyError leaves get_features.
RECURSIVE FeatureLoop(_, _, _)
FeatureLoop(d, keys, gathered) ==
    IF keys = <<>> THEN Returned(gathered)
    ELSE LET key == Head(keys)
             got == Extract(key, d)
         IN  IF got.state = "returned"
             THEN FeatureLoop(d, Tail(keys),
                      SetItem(gathered, key, _remove_pubmed_annotation(got.value)))
             ELSE IF _get_accession(d).state = "raised"
                  THEN KeyError
                  ELSE FeatureLoop(d, Tail(keys), OnKeyError(gathered, key))

get_features(d) == FeatureLoop(d, FEATURE_KEYS, <<>>)

----------------------------------------------------------------------------
(* process.py: the main loop *)

SPLITS == <<"test", "val", "train">>      \* line 223

\* line 234: json.load(read_file). A file holds a JSON document or text that
\* is no JSON; only the document's value is modelled.
JsonLoad(content) ==
    IF content.kind = "json" THEN Returned(content.doc) ELSE Raised("JSONDecodeError")

\* the dictionary of lines 248-263 with "sequence" taken from processed_data
OutputDictWholeSequence(pd, segmented_sequence) ==
    << <<"accession", pd["accession"]>>,
       <<"sequence", pd["sequence"]>>,
       <<"organism", pd["organism"]>>,
       <<"family", pd["family"]>>,
       <<"domain", pd["domain"]>>,
       <<"location", pd["location"]>>,
       <<"subunit", pd["subunit"]>>,
       <<"activity", pd["activity"]>>,
       <<"cofactor", pd["cofactor"]>>,
       <<"ptm", pd["ptm"]>>,
       <<"pathway", pd["pathway"]>>,
       <<"tissue", pd["tissue"]>>,
       <<"induction", pd["induction"]>>,
       <<"description", pd["description"]>> >>

\* lines 248-263: the dictionary handed to json.dumps, as its key/value pairs
\* in insertion order (the order json.dumps writes them in)
OutputDict(pd, segmented_sequence) ==
    << <<"accession", pd["accession"]>>,
       <<"sequence", segmented_sequence>>,
       <<"organism", pd["organism"]>>,
       <<"family", pd["family"]>>,
       <<"domain", pd["domain"]>>,
       <<"location", pd["location"]>>,
       <<"subunit", pd["subunit"]>>,
       <<"activity", pd["activity"]>>,
       <<"cofactor", pd["cofactor"]>>,
       <<"ptm", pd["ptm"]>>,
       <<"pathway", pd["pathway"]>>,
       <<"tissue", pd["tissue"]>>,
       <<"induction", pd["induction"]>>,
       <<"description", pd["description"]>> >>

\* lines 245-265: one written line per segment
WrittenLines(pd, segs) == [i \in 1..Len(segs) |-> OutputDict(pd, segs[i])]

----------------------------------------------------------------------------
(* download.py: the main loop *)

BASE_URL == "https://rest.uniprot.org/uniprotkb"     \* line 15

\* the characters str.strip() removes that the lists of the model contain
WHITESPACE == {" ", "\t", "\n", "\r", "\f"}

RECURSIVE LStrip(_)
LStrip(s) == IF s # <<>> /\ Head(s) \in WHITESPACE THEN LStrip(Tail(s)) ELSE s

RECURSIVE RStrip(_)
RStrip(s) ==
    IF s # <<>> /\ s[Len(s)] \in WHITESPACE THEN RStrip(SubSeq(s, 1, Len(s) - 1)) ELSE s

\* line 26: line.strip()
Strip(s) == RStrip(LStrip(s))

\* line 26: [line.strip() for line in file]
ReadAccessions(lines) == [i \in 1..Len(lines) |-> Strip(lines[i])]

\* line 29: f'{BASE_URL}/{accession}.json'
Url(accession) == <<BASE_URL, "/">> \o accession \o <<".json">>

\* line 35: os.path.join(save_json_dir, f"{accession}.json"), below the root
SavePath(split, accession) == <<split>> \o accession \o <<".json">>

\* line 34: response.json() ; only the document of the body is modelled, the
\* layout of its text is not kept by the parse
ResponseJson(resp) == resp.body.doc

\* line 37: json.dump(data, f, indent=4)
JsonDump(doc) == [layout |-> "indent=4", doc |-> doc]

\* lines 33-41 with the status test dropped: the body is saved whatever the status
StoreAfterAnyStatus(files, split, accession, resp) ==
    (SavePath(split, accession) :> JsonDump(ResponseJson(resp))) @@ files

\* lines 33-41: the files after the response to the request for accession
StoreAfter(files, split, accession, resp) ==
    IF resp.status_code = 200
    THEN (SavePath(split, accession) :> JsonDump(ResponseJson(resp))) @@ files
    ELSE files

----------------------------------------------------------------------------
(* Each specification below runs one part of the program; the variables of
   the other parts stay at these values. *)

SegIdle ==
    /\ sequence = <<>> /\ max_len = 0 /\ overlap_len = 0 /\ segments = NotCalled
StripIdle == text = <<>> /\ stripped = NotCalled
FeatIdle == data = <<>> /\ gathered_dict = NotCalled
ExtIdle ==
    /\ listing = <<>> /\ epc = "idle" /\ esplit = 0 /\ efile = 0
    /\ save_files = <<>> /\ processed_data = <<>> /\ segmented_sequences = <<>>
FetIdle ==
    /\ txt = <<>> /\ fpc = "idle" /\ fsplit = 0 /\ facc = 0 /\ accessions = <<>>
    /\ dirs = {} /\ store = <<>> /\ requests = <<>> /\ response = <<>>

----------------------------------------------------------------------------
(* Inputs of the segmenter *)

\* a sequence of n residues whose codes repeat with period p
Residues(n, p) == [i \in 1..n |-> (i - 1) % p]
Periods(n) == {1, 2, n + 1}

SegInitSmall ==
    \E n \in 0..MaxSeqLen, m \in 1..MaxMaxLen, o \in 0..(MaxMaxLen + 1) :
    \E p \in Periods(n) :
        /\ sequence = Residues(n, p)
        /\ max_len = m
        /\ overlap_len = o

\* the caller's configuration (line 242) on lengths around the stride boundaries
SegInitCorpus ==
    \E j \in 0..MaxStrides, d \in {-1, 0, 1} :
    LET n == CORPUS_MAX_LEN + j * (CORPUS_MAX_LEN - CORPUS_OVERLAP_LEN) + d IN
    \E p \in Periods(n) :
        /\ sequence = Residues(n, p)
        /\ max_len = CORPUS_MAX_LEN
        /\ overlap_len = CORPUS_OVERLAP_LEN

SegInit ==
    /\ SegInitSmall \/ SegInitCorpus
    /\ segments = NotCalled
    /\ StripIdle /\ FeatIdle /\ ExtIdle /\ FetIdle

CallSegment ==
    /\ segments.state = "pending"
    /\ segments' = segment_with_overlapping(sequence, max_len, overlap_len)
    /\ UNCHANGED <<sequence, max_len, overlap_len, stripVars, featVars, extVars, fetVars>>

SegNext == CallSegment
SpecSeg == SegInit /\ [][SegNext]_vars

----------------------------------------------------------------------------
(* Claims about the segmenter, checked under SpecSeg *)

SegCalled == segments.state # "pending"
ValidConfig == 0 <= overlap_len /\ overlap_len < max_len
Stride == max_len - overlap_len

\* the window of s that starts at offset off (0-based) and is maxlen long
Window(s, off, maxlen) == [j \in 1..maxlen |-> s[off + j]]

\* offsets k*stride whose window lies wholly inside the sequence
FullOffsets == {off \in 0..Len(sequence) :
                    /\ off % Stride = 0
                    /\ off + max_len <= Len(sequence)}

ReferenceSegments ==
    IF Len(sequence) <= max_len
    THEN <<sequence>>
    ELSE LET n == Cardinality(FullOffsets)
         IN  [i \in 1..(n + 1) |->
                 IF i <= n
                 THEN Window(sequence, (i - 1) * Stride, max_len)
                 ELSE Window(sequence, Len(sequence) - max_len, max_len)]

\* C1: with 0 <= overlap_len < max_len the call returns [s] for a sequence
\* no longer than max_len, and otherwise the full-length windows at offsets
\* 0, stride, 2*stride, ... in increasing order followed by the window of the
\* final max_len characters, which is appended even when it repeats the last one.
C1_SegmentsMatchReference ==
    (SegCalled /\ ValidConfig) => segments = Returned(ReferenceSegments)

\* the example of the specification: "ABCDEFGHIJ", max_len 4, overlap_len 2
\* gives five windows, the last two equal
C1_Witness ==
    /\ SegCalled /\ ValidConfig
    /\ sequence = Residues(10, 11) /\ max_len = 4 /\ overlap_len = 2
    /\ segments.value = << <<0,1,2,3>>, <<2,3,4,5>>, <<4,5,6,7>>, <<6,7,8,9>>, <<6,7,8,9>> >>

\* C2: for a sequence longer than max_len every returned segment is exactly
\* max_len long and the last one is the final max_len characters.
C2_FullLengthAndTail ==
    (SegCalled /\ segments.state = "returned" /\ Len(sequence) > max_len) =>
        /\ Len(segments.value) >= 1
        /\ \A i \in 1..Len(segments.value) : Len(segments.value[i]) = max_len
        /\ segments.value[Len(segments.value)]
               = Window(sequence, Len(sequence) - max_len, max_len)

\* an over-length sequence whose stride walk does not land on the tail
C2_Witness ==
    /\ SegCalled /\ segments.state = "returned" /\ ValidConfig
    /\ Len(sequence) > max_len
    /\ (Len(sequence) - max_len) % Stride # 0
    /\ Len(segments.value) >= 3

\* C3: a call with overlap_len >= max_len is rejected with an error, whatever
\* the sequence: it returns no list of segments.
C3_InvalidConfigRejected ==
    (SegCalled /\ overlap_len >= max_len) => segments.state = "raised"

\* C10: for 0 <= overlap_len < max_len and a sequence longer than max_len,
\* every index of the sequence lies inside a returned window, the window being
\* at an offset k*stride or at the tail offset len(s) - max_len.
WindowOffsets == {off \in 0..(Len(sequence) - max_len) :
                      off % Stride = 0 \/ off = Len(sequence) - max_len}

\* the offsets among them whose window the call returned
ReturnedOffsets ==
    {off \in WindowOffsets :
        \E k \in 1..Len(segments.value) :
            segments.value[k] = Window(sequence, off, max_len)}

C10_WindowsCoverSequence ==
    (SegCalled /\ ValidConfig /\ Len(sequence) > max_len) =>
        /\ segments.state = "returned"
        /\ LET offs == ReturnedOffsets
           IN  \A i \in 0..(Len(sequence) - 1) :
                   \E off \in offs : off <= i /\ i < off + max_len

\* the corpus configuration on a sequence of distinct residues whose last
\* residues only the tail window holds
C10_Witness ==
    /\ SegCalled /\ segments.state = "returned"
    /\ max_len = CORPUS_MAX_LEN /\ overlap_len = CORPUS_OVERLAP_LEN
    /\ sequence = Residues(Len(sequence), Len(sequence) + 1)
    /\ Len(sequence) > max_len
    /\ (Len(sequence) - max_len) % Stride # 0
    /\ Len(segments.value) = 3

----------------------------------------------------------------------------
(* Inputs of the citation stripper *)

Chunks == << <<"(">>, <<")">>, PUBMED, <<"p","u","b","m","e","d">>, <<"P","u","b">>, <<"x">> >>

EXAMPLE_CITED == <<"B","i","n","d","s"," ","z","i","n","c"," ","(","P","u","b","M","e","d",":","1","2","3","4","5",")",".">>
EXAMPLE_PLAIN == <<"H","a","s"," ","d","o","m","a","i","n"," ","(","D","U","F","1","2","3",")",".">>

StripInit ==
    /\ \/ text \in {EXAMPLE_CITED, EXAMPLE_PLAIN}
       \/ \E n \in 0..MaxChunks : \E c \in [1..n -> 1..Len(Chunks)] :
              text = Concat([i \in 1..n |-> Chunks[c[i]]])
    /\ stripped = NotCalled
    /\ SegIdle /\ FeatIdle /\ ExtIdle /\ FetIdle

CallStrip ==
    /\ stripped.state = "pending"
    /\ stripped' = Returned(_remove_pubmed_annotation(text))
    /\ UNCHANGED <<text, segVars, featVars, extVars, fetVars>>

StripNext == CallStrip
SpecStrip == StripInit /\ [][StripNext]_vars

(* Claims about the citation stripper, checked under SpecStrip *)

\* a parenthesized span i..j of s with no parenthesis inside
PlainSpan(s, i, j) ==
    /\ i < j /\ s[i] = "(" /\ s[j] = ")"
    /\ \A k \in (i + 1)..(j - 1) : s[k] \notin Parens

\* the indices of s inside a plain span whose contents hold the marker
CitedIndices(s) ==
    {k \in 1..Len(s) :
        \E i \in 1..k, j \in k..Len(s) :
            /\ PlainSpan(s, i, j)
            /\ \E m \in (i + 1)..(j - Len(PUBMED)) :
                   \A q \in 1..Len(PUBMED) : s[m + q - 1] = PUBMED[q]}

\* s without the characters at the indices in gone, the others in order
Without(s, gone) ==
    LET kept == (1..Len(s)) \ gone
    IN  [n \in 1..Cardinality(kept) |->
            s[CHOOSE k \in kept : Cardinality({m \in kept : m <= k}) = n]]

\* C7: the result is the text with exactly the marker-holding plain spans
\* removed: every other character, and every group without the case-sensitive
\* marker, is kept unchanged and in order.
C7_RemovesExactlyCitedSpans ==
    stripped.state = "returned" =>
        stripped.value = Without(text, CitedIndices(text))

\* the cited example loses its citation and nothing else
C7_Witness ==
    /\ stripped.state = "returned"
    /\ text = EXAMPLE_CITED
    /\ stripped.value = <<"B","i","n","d","s"," ","z","i","n","c"," ",".">>

----------------------------------------------------------------------------
(* Inputs of get_features: records with any of the top-level keys missing and
   up to MaxComments comments drawn from COMMENT_POOL *)

T(v) == [value |-> v]

COMMENT_POOL ==
    << [commentType |-> "FUNCTION",
        texts |-> <<T(<<"B","i","n","d","s"," ","z","i","n","c"," ","(","P","u","b","M","e","d",":","1",")",".">>), T(<<"A","c","t","s">>)>>],
       [commentType |-> "SIMILARITY", texts |-> <<T(<<"B","e","l","o","n","g","s"," ","t","o"," ","F">>)>>],
       [texts |-> <<T(<<"u","n","t","y","p","e","d">>)>>],
       [commentType |-> "DOMAIN"],
       [commentType |-> "PTM", texts |-> <<[evidences |-> <<>>]>>],
       [commentType |-> "SUBCELLULAR LOCATION",
        subcellularLocations |->
            <<[location |-> T(<<"M","e","m","b","r","a","n","e">>), topology |-> T(<<"S","i","n","g","l","e","-","p","a","s","s">>)]>>,
        note |-> [texts |-> <<T(<<"N","o","t","e"," ","(","P","u","b","M","e","d",":","2",")">>)>>]],
       [commentType |-> "SUBCELLULAR LOCATION",
        subcellularLocations |-> <<[location |-> [id |-> <<"S","L","-","1">>]]>>],
       [commentType |-> "CATALYTIC ACTIVITY", reaction |-> [name |-> <<"A"," ","="," ","B">>]],
       [commentType |-> "CATALYTIC ACTIVITY"],
       [commentType |-> "COFACTOR",
        cofactors |-> <<[name |-> <<"Z","n","(","2","+",")">>]>>,
        note |-> [texts |-> <<T(<<"B","i","n","d","s"," ","1">>)>>]],
       [commentType |-> "COFACTOR", note |-> [evidences |-> <<>>]],
       [commentType |-> "SUBUNIT", texts |-> <<T(<<"H","o","m","o","d","i","m","e","r">>)>>],
       [commentType |-> "INDUCTION", texts |-> <<T(<<"B","y"," ","h","e","a","t">>)>>] >>

ACCESSION == <<"P","1","2","3","4","5">>
SHORT_SEQUENCE == <<"M","K","V">>
ORGANISM_OPTIONS ==
    << <<>>,
       [scientificName |-> <<"H","o","m","o"," ","s","a","p","i","e","n","s">>],
       [lineage |-> <<<<"E","u","k","a","r","y","o","t","a">>, <<"H","o","m","o">>>>],
       [lineage |-> <<<<"E","u","k","a","r","y","o","t","a">>, <<"H","o","m","o">>>>, scientificName |-> <<"H","o","m","o"," ","s","a","p","i","e","n","s">>] >>
SEQUENCE_OPTIONS ==
    << <<>>, [length |-> 3], [value |-> SHORT_SEQUENCE, length |-> 3] >>

\* a record: hasAcc says whether primaryAccession is present, seq and org pick
\* an option (0: the key is absent), com is the comments list when hasCom
Record(hasAcc, seq, org, hasCom, com) ==
    LET acc == IF hasAcc THEN [primaryAccession |-> ACCESSION] ELSE <<>>
        s == IF seq = 0 THEN <<>> ELSE [sequence |-> SEQUENCE_OPTIONS[seq]]
        o == IF org = 0 THEN <<>> ELSE [organism |-> ORGANISM_OPTIONS[org]]
        c == IF hasCom THEN [comments |-> com] ELSE <<>>
    IN  acc @@ s @@ o @@ c

FeatInit ==
    /\ \E hasAcc \in BOOLEAN, seq \in 0..Len(SEQUENCE_OPTIONS),
          org \in 0..Len(ORGANISM_OPTIONS) :
          \/ data = Record(hasAcc, seq, org, FALSE, <<>>)
          \/ \E n \in 0..MaxComments : \E c \in [1..n -> 1..Len(COMMENT_POOL)] :
                 data = Record(hasAcc, seq, org, TRUE,
                               [i \in 1..n |-> COMMENT_POOL[c[i]]])
    /\ gathered_dict = NotCalled
    /\ SegIdle /\ StripIdle /\ ExtIdle /\ FetIdle

CallGetFeatures ==
    /\ gathered_dict.state = "pending"
    /\ gathered_dict' = get_features(data)
    /\ UNCHANGED <<data, segVars, stripVars, extVars, fetVars>>

FeatNext == CallGetFeatures
SpecFeat == FeatInit /\ [][FeatNext]_vars

(* Claims about get_features, checked under SpecFeat *)

KeySet == {FEATURE_KEYS[i] : i \in 1..Len(FEATURE_KEYS)}
COMMENT_KEYS == {"family", "domain", "location", "subunit", "activity", "cofactor",
                 "ptm", "pathway", "tissue", "induction", "description"}
IsString(v) == v \in Seq(STRING)

\* C4: for a record with primaryAccession get_features returns a mapping with
\* exactly the 14 keys, each a string; a field whose path meets a missing key
\* is the empty string, every other field keeps its own (cleaned) value, and
\* nothing is raised.
C4_AllKeysMissingIsEmpty ==
    (gathered_dict.state # "pending" /\ Has(data, "primaryAccession")) =>
        /\ gathered_dict.state = "returned"
        /\ LET g == gathered_dict.value IN
           /\ DOMAIN g = KeySet
           /\ Cardinality(KeySet) = 14
           /\ \A k \in KeySet : IsString(g[k])
           /\ ~Has(data, "comments") => \A k \in COMMENT_KEYS : g[k] = <<>>
           /\ (~Has(data, "sequence") \/ ~Has(data["sequence"], "value"))
                  => g["sequence"] = <<>>
           /\ (Has(data, "sequence") /\ Has(data["sequence"], "value"))
                  => g["sequence"] = _remove_pubmed_annotation(data["sequence"]["value"])
           /\ (\/ ~Has(data, "organism")
               \/ ~Has(data["organism"], "lineage")
               \/ ~Has(data["organism"], "scientificName"))
                  => g["organism"] = <<>>
           /\ g["accession"] = _remove_pubmed_annotation(data["primaryAccession"])
           /\ \A k \in KeySet :
                  g[k] = IF Extract(k, data).state = "raised"
                         THEN <<>>
                         ELSE _remove_pubmed_annotation(Extract(k, data).value)

\* a record without comments and without organism whose sequence is still extracted
C4_Witness ==
    /\ gathered_dict.state = "returned"
    /\ Has(data, "primaryAccession")
    /\ ~Has(data, "comments") /\ ~Has(data, "organism")
    /\ gathered_dict.value["description"] = <<>>
    /\ gathered_dict.value["organism"] = <<>>
    /\ gathered_dict.value["sequence"] = SHORT_SEQUENCE

----------------------------------------------------------------------------
(* Inputs of the Extractor: the files of the download directory *)

AMINO == <<"A","C","D","E","F","G","H","I","K","L","M","N","P","Q","R","S","T","V","W","Y">>
LongSequence(n) == [i \in 1..n |-> AMINO[((i - 1) % Len(AMINO)) + 1]]

\* one full stride and one residue more than max_len: two stride windows and the tail
LONG_LEN == CORPUS_MAX_LEN + (CORPUS_MAX_LEN - CORPUS_OVERLAP_LEN) + 1

FILE_NAMES == <<"garbage.json", "noacc.json", "short.json", "long.json", "noseq.json">>

Content(name) ==
    CASE name = "garbage.json" -> [kind |-> "text"]
      [] name = "noacc.json" ->
            [kind |-> "json", doc |-> Record(FALSE, 3, 4, TRUE, <<COMMENT_POOL[1]>>)]
      [] name = "short.json" ->
            [kind |-> "json",
             doc |-> Record(TRUE, 3, 4, TRUE, <<COMMENT_POOL[1], COMMENT_POOL[10]>>)]
      [] name = "long.json" ->
            [kind |-> "json",
             doc |-> [primaryAccession |-> <<"Q","9","9","9","9","9">>,
                      sequence |-> [value |-> LongSequence(LONG_LEN)],
                      comments |-> <<COMMENT_POOL[12]>>]]
      [] name = "noseq.json" ->
            [kind |-> "json", doc |-> Record(TRUE, 0, 4, FALSE, <<>>)]

\* the directory listings: sequences of file names, MaxFiles files in all
Listings(n) == UNION {[1..k -> {FILE_NAMES[i] : i \in 1..Len(FILE_NAMES)}] : k \in 0..n}

ExtInit ==
    /\ \E a \in Listings(MaxFiles) :
       \E b \in Listings(MaxFiles - Len(a)) :
       \E c \in Listings(MaxFiles - Len(a) - Len(b)) :
           listing = <<a, b, c>>
    /\ epc = "open" /\ esplit = 1 /\ efile = 0
    /\ save_files = [sp \in {SPLITS[i] : i \in 1..Len(SPLITS)} |->
                        [exists |-> FALSE, lines |-> <<>>]]
    /\ processed_data = <<>> /\ segmented_sequences = <<>>
    /\ SegIdle /\ StripIdle /\ FeatIdle /\ FetIdle

\* lines 224-229: open(save_json_path, "w") creates or truncates the file
OpenSplit ==
    /\ epc = "open"
    /\ save_files' = [save_files EXCEPT ![SPLITS[esplit]] =
                          [exists |-> TRUE, lines |-> <<>>]]
    /\ epc' = "files" /\ efile' = 0
    /\ UNCHANGED <<listing, esplit, processed_data, segmented_sequences,
                   segVars, stripVars, featVars, fetVars>>

CurrentFile == listing[esplit][efile + 1]

\* lines 231-265: one iteration of the loop over the listing
ProcessFile ==
    /\ epc = "files" /\ efile < Len(listing[esplit])
    /\ LET loaded == JsonLoad(Content(CurrentFile)) IN
       \/ \* lines 235-237: the file does not load: logged, next file
          /\ loaded.state = "raised"
          /\ efile' = efile + 1
          /\ UNCHANGED <<epc, save_files, processed_data, segmented_sequences>>
       \/ \* line 239 raises: nothing in the loop catches it, the run ends
          /\ loaded.state = "returned"
          /\ get_features(loaded.value).state = "raised"
          /\ epc' = "crashed"
          /\ UNCHANGED <<efile, save_files, processed_data, segmented_sequences>>
       \/ \* lines 239-265
          /\ loaded.state = "returned"
          /\ get_features(loaded.value).state = "returned"
          /\ LET pd == get_features(loaded.value).value
                 segs == segment_with_overlapping(pd["sequence"], CORPUS_MAX_LEN,
                                                  CORPUS_OVERLAP_LEN).value
             IN  /\ processed_data' = pd
                 /\ segmented_sequences' = segs
                 /\ save_files' = [save_files EXCEPT ![SPLITS[esplit]].lines =
                                       @ \o WrittenLines(pd, segs)]
          /\ efile' = efile + 1
          /\ UNCHANGED epc
    /\ UNCHANGED <<listing, esplit, segVars, stripVars, featVars, fetVars>>

\* the listing is exhausted: the file is closed, the next split begins
CloseSplit ==
    /\ epc = "files" /\ efile = Len(listing[esplit])
    /\ IF esplit = Len(SPLITS)
       THEN epc' = "done" /\ UNCHANGED esplit
       ELSE epc' = "open" /\ esplit' = esplit + 1
    /\ UNCHANGED <<listing, efile, save_files, processed_data, segmented_sequences,
                   segVars, stripVars, featVars, fetVars>>

ExtNext == OpenSplit \/ ProcessFile \/ CloseSplit
SpecExt == ExtInit /\ [][ExtNext]_vars

(* Claims about the Extractor, checked under SpecExt *)

Finished == epc \in {"done", "crashed"}

\* a file that loads as JSON and whose record has an accession
Resolvable(name) ==
    /\ Content(name).kind = "json"
    /\ Has(Content(name).doc, "primaryAccession")

\* the lines such a file stands for, none for any other file
LinesOf(name) ==
    IF Resolvable(name)
    THEN LET pd == get_features(Content(name).doc).value
         IN  WrittenLines(pd, segment_with_overlapping(pd["sequence"], CORPUS_MAX_LEN,
                                                       CORPUS_OVERLAP_LEN).value)
    ELSE <<>>

\* C5: once the run has ended, each split's output file holds the lines of
\* exactly its files that loaded and had an accession: a file that does not
\* load or lacks the accession adds nothing and stops no later file or split.
C5_FailuresConfined ==
    Finished =>
        \A s \in 1..Len(SPLITS) :
            save_files[SPLITS[s]].lines
                   = Concat([i \in 1..Len(listing[s]) |-> LinesOf(listing[s][i])])

\* the keys of a written line, in order, and the value it gives a key
LineKeys(line) == [i \in 1..Len(line) |-> line[i][1]]
LineValue(line, key) == line[CHOOSE i \in 1..Len(line) : line[i][1] = key][2]

\* a step of the loop that extracted the record of the file it visited
ExtractedStep ==
    /\ epc = "files" /\ epc' = "files" /\ efile' = efile + 1
    /\ Content(CurrentFile).kind = "json"

\* C6: a step that extracts a record appends exactly one line per segment of
\* its sequence, in segment order; each line has exactly the 14 keys, the
\* segment as its sequence and the 13 other values get_features returned; a
\* record whose sequence is missing or at most 1022 long adds exactly one line.
C6_OneLinePerSegment ==
    [][ExtractedStep =>
        LET old == save_files[SPLITS[esplit]].lines
            new == save_files'[SPLITS[esplit]].lines
            doc == Content(CurrentFile).doc
            pd == processed_data'
            segs == segmented_sequences'
            n == Len(new) - Len(old)
        IN  /\ \A s \in 1..Len(SPLITS) :
                   s # esplit => save_files'[SPLITS[s]] = save_files[SPLITS[s]]
            /\ n >= 0 /\ SubSeq(new, 1, Len(old)) = old
            /\ pd = get_features(doc).value
            /\ Returned(segs) = segment_with_overlapping(pd["sequence"], CORPUS_MAX_LEN,
                                                         CORPUS_OVERLAP_LEN)
            /\ n = Len(segs)
            /\ \A i \in 1..n :
                   LET line == new[Len(old) + i] IN
                   /\ LineKeys(line) = FEATURE_KEYS
                   /\ Cardinality({line[j][1] : j \in 1..Len(line)}) = 14
                   /\ LineValue(line, "sequence") = segs[i]
                   /\ \A j \in 1..Len(FEATURE_KEYS) :
                          /\ IsString(line[j][2])
                          /\ FEATURE_KEYS[j] # "sequence"
                                 => line[j][2] = pd[FEATURE_KEYS[j]]
            /\ (~Has(doc, "sequence") \/ ~Has(doc["sequence"], "value")) =>
                   n = 1 /\ LineValue(new[Len(new)], "sequence") = <<>>
            /\ (Has(doc, "sequence") /\ Has(doc["sequence"], "value")
                    /\ Len(doc["sequence"]["value"]) <= 1022) => n = 1
       ]_vars

\* the long record has just been written: three lines, one per segment, the
\* same accession on each
C6_Witness ==
    /\ epc = "files" /\ efile >= 1
    /\ listing[esplit][efile] = "long.json"
    /\ Len(segmented_sequences) = 3
    /\ LET lines == save_files[SPLITS[esplit]].lines
           n == Len(lines)
       IN  /\ n >= 3
           /\ \A i \in 1..3 :
                  /\ LineValue(lines[n - 3 + i], "sequence") = segmented_sequences[i]
                  /\ LineValue(lines[n - 3 + i], "accession") = processed_data["accession"]
           /\ segmented_sequences[1] # segmented_sequences[2]

----------------------------------------------------------------------------
(* Inputs of the Fetcher: the accession lists and the answers of the API *)

LINE_POOL ==
    << <<"P","1","2","3","4","5","\n">>,
       <<" ","Q","9"," ","\n">>,
       <<"\n">>,
       <<" ","\t","\n">> >>

Lists(n) == UNION {[1..k -> {LINE_POOL[i] : i \in 1..Len(LINE_POOL)}] : k \in 0..n}

\* what the API may answer: 200 with a JSON body, or another status
RESPONSES ==
    {[status_code |-> 200, body |-> [layout |-> "compact", doc |-> d]] :
         d \in {"recordA", "recordB"}}
    \cup {[status_code |-> 404, body |-> [layout |-> "compact", doc |-> "error"]]}

STALE_FILE == [layout |-> "indent=4", doc |-> "recordOld"]

FetInit ==
    /\ \E a \in Lists(MaxLines) :
       \E b \in Lists(MaxLines - Len(a)) :
       \E c \in Lists(MaxLines - Len(a) - Len(b)) :
           txt = <<a, b, c>>
    /\ \* a first run, or a run over the directories and a file of an earlier one
       \/ dirs = {} /\ store = <<>>
       \/ /\ dirs = {SPLITS[i] : i \in 1..Len(SPLITS)}
          /\ store = (SavePath("test", Strip(LINE_POOL[1])) :> STALE_FILE)
    /\ fpc = "begin" /\ fsplit = 1 /\ facc = 0
    /\ accessions = <<>> /\ requests = <<>> /\ response = <<>>
    /\ SegIdle /\ StripIdle /\ FeatIdle /\ ExtIdle

\* lines 20-26: the directory is made if absent, the list is read
BeginSplit ==
    /\ fpc = "begin"
    /\ dirs' = dirs \cup {SPLITS[fsplit]}
    /\ accessions' = ReadAccessions(txt[fsplit])
    /\ fpc' = "fetch" /\ facc' = 0
    /\ UNCHANGED <<txt, fsplit, store, requests, response,
                   segVars, stripVars, featVars, extVars>>

\* lines 28-41: one iteration of the loop over the accessions
Fetch ==
    /\ fpc = "fetch" /\ facc < Len(accessions)
    /\ LET accession == accessions[facc + 1] IN
       \E resp \in RESPONSES :
           /\ requests' = Append(requests, [method |-> "GET", url |-> Url(accession)])
           /\ response' = resp
           /\ store' = StoreAfter(store, SPLITS[fsplit], accession, resp)
    /\ facc' = facc + 1
    /\ UNCHANGED <<txt, fpc, fsplit, accessions, dirs,
                   segVars, stripVars, featVars, extVars>>

\* the list is exhausted: the next split begins
EndSplit ==
    /\ fpc = "fetch" /\ facc = Len(accessions)
    /\ IF fsplit = Len(SPLITS)
       THEN fpc' = "done" /\ UNCHANGED fsplit
       ELSE fpc' = "begin" /\ fsplit' = fsplit + 1
    /\ UNCHANGED <<txt, facc, accessions, dirs, store, requests, response,
                   segVars, stripVars, featVars, extVars>>

FetNext == BeginSplit \/ Fetch \/ EndSplit
SpecFet == FetInit /\ [][FetNext]_vars

(* Claims about the Fetcher, checked under SpecFet *)

\* the lines of the lists the loop has visited so far, in order
VisitedLines ==
    Concat([s \in 1..Len(SPLITS) |->
               IF s < fsplit \/ fpc = "done" THEN txt[s]
               ELSE IF s = fsplit /\ fpc = "fetch" THEN SubSeq(txt[s], 1, facc)
               ELSE <<>>])

\* a line with a character that is no whitespace
NonBlank(line) == \E i \in 1..Len(line) : line[i] \notin WHITESPACE

\* the line without its leading and trailing whitespace
Trimmed(line) ==
    LET ix == {i \in 1..Len(line) : line[i] \notin WHITESPACE}
    IN  IF ix = {} THEN <<>>
        ELSE SubSeq(line, CHOOSE i \in ix : \A j \in ix : i <= j,
                          CHOOSE i \in ix : \A j \in ix : i >= j)

GetOf(line) == [method |-> "GET", url |-> <<BASE_URL, "/">> \o Trimmed(line) \o <<".json">>]

\* a step that issues a request
FetchStep == Len(requests') = Len(requests) + 1

\* C8: every entry of a split's list is requested exactly once, in list order,
\* after the split's directory exists; a 200 response makes the accession's
\* file hold the response's document, any other response leaves every file as
\* it was, and the run goes on to the next entry in either case.
C8_EachRequestedOnceFailuresSkipped ==
    /\ [](/\ requests = [i \in 1..Len(VisitedLines) |-> GetOf(VisitedLines[i])]
          /\ fpc = "done" => Len(requests) = Len(txt[1]) + Len(txt[2]) + Len(txt[3]))
    /\ [][FetchStep =>
            LET line == txt[fsplit][facc + 1]
                path == <<SPLITS[fsplit]>> \o Trimmed(line) \o <<".json">>
            IN  /\ SPLITS[fsplit] \in dirs
                /\ fpc' = "fetch" /\ facc' = facc + 1 /\ fsplit' = fsplit
                /\ IF response'.status_code = 200
                   THEN /\ DOMAIN store' = DOMAIN store \cup {path}
                        /\ store'[path].doc = response'.body.doc
                        /\ \A q \in DOMAIN store \ {path} : store'[q] = store[q]
                   ELSE store' = store
       ]_vars

\* the first request of a split failed, the second succeeded and is stored
C8_Witness ==
    /\ fpc = "fetch" /\ facc = 2 /\ Len(requests) = 2
    /\ accessions[1] # accessions[2]
    /\ SavePath(SPLITS[fsplit], accessions[1]) \notin DOMAIN store
    /\ SavePath(SPLITS[fsplit], accessions[2]) \in DOMAIN store
    /\ response.status_code = 200
    /\ store[SavePath(SPLITS[fsplit], accessions[2])].doc = response.body.doc

\* C9: a blank or whitespace-only line is no accession and causes no request:
\* the requests issued are those of the non-blank lines visited, each for the
\* trimmed, non-empty accession.
C9_BlankLinesCauseNoRequest ==
    LET nonblank == SelectSeq(VisitedLines, NonBlank)
    IN  requests = [i \in 1..Len(nonblank) |-> GetOf(nonblank[i])]

====
